---------------------------- MODULE Spec2Model ----------------------------
(***************************************************************************)
(* A model of c4psycopg: the SQL composition functions of                  *)
(* c4psycopg/queries.py, the entity shape utilities of                     *)
(* c4psycopg/ems/utils.py and the EntityManager of c4psycopg/ems/em.py.    *)
(*                                                                         *)
(* A psycopg sql.Composed is modelled by the flat sequence of the leaf     *)
(* Composables it renders, in rendering order: SQL text, Identifier,       *)
(* Placeholder and Literal tokens.  A Python dict is a function whose      *)
(* DOMAIN is its key set; a tuple is a sequence; an Optional value is      *)
(* None or Some(x); the outcome of a call is Ok(value) or Raise(exc, arg). *)
(***************************************************************************)
EXTENDS Integers, Sequences, FiniteSets, TLC

VARIABLES
    call,       \* the call under way: its function and its arguments
    ret,        \* its outcome: Pending, Ok(value) or Raise(exception, argument)
    caller_entity,  \* the caller's entity (a dict), passed by reference
    em,         \* the EntityManager's slots
    ents,       \* the caller's entities handed to the manager, by reference
    conn,       \* the calls the manager has made on the connection and cursor
    memo        \* the functools caches of queries.py and the threads calling it

vars == <<call, ret, caller_entity, em, ents, conn, memo>>

---------------------------------------------------------------------------
(* Bounds of the model. *)

MaxCols == 3        \* longest column tuple
MaxDefaults == 2    \* longest defaults tuple
MaxPkCols == 2      \* longest composite key
MaxQty == 2         \* largest row count of a composite-key IN list
MaxPage == 2        \* largest limit and offset
MaxEnts == 2        \* most entities handed to the manager in one call

ColNames == {"customerid", "name", "email"}
TableNames == {"customer", "course_grades"}
EntityKeys == ColNames \cup {"esclavo"}
Values == {1, 2}
ProviderValues == {8, 9}

---------------------------------------------------------------------------
(* Python values. *)

None == [none |-> TRUE]
Some(x) == [none |-> FALSE, v |-> x]

EmptyDict == <<>>

\* No manager constructed yet; no call under way.
NoManager == [table |-> ""]
NoMemo == [cache |-> <<>>]
Idle == [fn |-> "idle"]

Pending == [st |-> "pending"]
Ok(v) == [st |-> "ok", val |-> v]
Raise(e, a) == [st |-> "raise", exc |-> e, arg |-> a]

SeqsUpTo(S, n) == UNION {[1..k -> S] : k \in 0..n}
Optional(S) == {None} \cup {Some(x) : x \in S}
Range(s) == {s[i] : i \in DOMAIN s}

RECURSIVE Flatten(_)
Flatten(ss) == IF ss = <<>> THEN <<>> ELSE Head(ss) \o Flatten(Tail(ss))

---------------------------------------------------------------------------
(* psycopg.sql as the composers use it. *)

SQL(t) == [k |-> "SQL", v |-> t]
Identifier(n) == [k |-> "Id", v |-> n]
Placeholder(n) == [k |-> "Ph", v |-> n]     \* Placeholder() is Placeholder("")
Literal(n) == [k |-> "Lit", v |-> ToString(n)]

\* A replacement field {name} of a format string.
Fld(n) == [k |-> "Fld", v |-> n]

\* SQL(sep).join(seq): the items of seq, each a Composed, with sep between them.
RECURSIVE Join(_, _)
Join(sep, seq) ==
    IF seq = <<>> THEN <<>>
    ELSE IF Len(seq) = 1 THEN Head(seq)
    ELSE Head(seq) \o <<SQL(sep)>> \o Join(sep, Tail(seq))

\* stmt += more, on format strings: the text at the seam is one piece of text.
StrAdd(stmt, more) ==
    IF stmt # <<>> /\ more # <<>> /\ stmt[Len(stmt)].k = "SQL" /\ more[1].k = "SQL"
    THEN SubSeq(stmt, 1, Len(stmt) - 1)
         \o <<SQL(stmt[Len(stmt)].v \o more[1].v)>> \o Tail(more)
    ELSE stmt \o more

\* SQL(stmt).format(**params): the text pieces, with every field replaced.
Format(stmt, params) ==
    Flatten([i \in 1..Len(stmt) |->
        IF stmt[i].k = "Fld" THEN params[stmt[i].v] ELSE <<stmt[i]>>])

\* Python truthiness of an Optional[int] and of an Optional[Composable].
TruthyInt(x) == ~x.none /\ x.v # 0
TruthyObj(x) == ~x.none

---------------------------------------------------------------------------
(* c4psycopg/queries.py *)

commas(composed_list) == Join(",", composed_list)

rows_with_phs(rows, phs) ==
    LET row == <<SQL("(")>> \o Join(",", [i \in 1..phs |-> <<Placeholder("")>>])
               \o <<SQL(")")>>
    IN Join(",", [i \in 1..rows |-> row])

\* A csplaceholders whose positional branch forgets the DEFAULT columns.
csplaceholders_positional_forgets_defaults(columns, defaults, named_phs) ==
    LET ds == IF defaults.none THEN <<>> ELSE defaults.v
    IN IF named_phs
       THEN Join(",", [i \in 1..Len(columns) |->
                IF columns[i] \in Range(ds) THEN <<SQL("DEFAULT")>>
                ELSE <<Placeholder(columns[i])>>])
       ELSE Join(",", [i \in 1..Len(columns) |-> <<Placeholder("")>>])

csplaceholders(columns, defaults, named_phs) ==
    LET ds == IF defaults.none THEN <<>> ELSE defaults.v
    IN IF named_phs
       THEN Join(",", [i \in 1..Len(columns) |->
                IF columns[i] \in Range(ds) THEN <<SQL("DEFAULT")>>
                ELSE <<Placeholder(columns[i])>>])
       ELSE Join(",", [i \in 1..Len(columns) |->
                IF columns[i] \in Range(ds) THEN <<SQL("DEFAULT")>>
                ELSE <<Placeholder("")>>])

\* A csidentifiers that stops one column short.
csidentifiers_drops_last(columns) ==
    Join(",", [i \in 1..(Len(columns) - 1) |-> <<Identifier(columns[i])>>])

csidentifiers(columns) ==
    Join(",", [i \in 1..Len(columns) |-> <<Identifier(columns[i])>>])

ob(column, order, nulls) ==
    LET stmt0 == <<Fld("column")>>
        params0 == [column |-> <<Identifier(column)>>]
        stmt1 == IF TruthyObj(order)
                 THEN StrAdd(stmt0, <<SQL(" "), Fld("column_ordering")>>) ELSE stmt0
        params1 == IF TruthyObj(order)
                   THEN params0 @@ ("column_ordering" :> <<SQL(order.v)>>) ELSE params0
        stmt2 == IF TruthyObj(nulls)
                 THEN StrAdd(stmt1, <<SQL(" NULLS "), Fld("nulls_ordering")>>) ELSE stmt1
        params2 == IF TruthyObj(nulls)
                   THEN params1 @@ ("nulls_ordering" :> <<SQL(nulls.v)>>) ELSE params1
    IN Format(stmt2, params2)

insert(table, columns, defaults, returning, named_phs) ==
    LET stmt0 == <<SQL("INSERT INTO "), Fld("table"), SQL(" ("), Fld("columns"),
                   SQL(") VALUES ("), Fld("phs"), SQL(")")>>
        params == [table |-> <<Identifier(table)>>,
                   columns |-> csidentifiers(columns),
                   phs |-> csplaceholders(columns, defaults, named_phs)]
        stmt == IF returning
                THEN StrAdd(stmt0, <<SQL(" RETURNING "), Fld("columns")>>) ELSE stmt0
    IN Format(stmt, params)

\* A rows_with_phs_and_defaults that leaves the defaulted columns out of the row.
rows_with_phs_and_defaults_omits_defaults(columns, defaults_per_entity) ==
    Join(",", [e \in 1..Len(defaults_per_entity) |->
        LET Bound(c) == c \notin Range(defaults_per_entity[e])
            bound == SelectSeq(columns, Bound)
        IN <<SQL("(")>>
           \o Join(",", [i \in 1..Len(bound) |-> <<Placeholder("")>>])
           \o <<SQL(")")>>])

rows_with_phs_and_defaults(columns, defaults_per_entity) ==
    Join(",", [e \in 1..Len(defaults_per_entity) |->
        <<SQL("(")>>
        \o Join(",", [i \in 1..Len(columns) |->
              IF columns[i] \in Range(defaults_per_entity[e])
              THEN <<SQL("DEFAULT")>> ELSE <<Placeholder("")>>])
        \o <<SQL(")")>>])

\* Python truthiness of an Optional[tuple].
TruthySeq(x) == ~x.none /\ x.v # <<>>

insert_many(table, columns, qty, defaults_per_entity, returning) ==
    LET stmt0 == <<SQL("INSERT INTO "), Fld("table"), SQL(" ("), Fld("columns"),
                   SQL(") VALUES "), Fld("phs")>>
        params == [table |-> <<Identifier(table)>>,
                   columns |-> csidentifiers(columns),
                   phs |-> IF TruthySeq(defaults_per_entity)
                           THEN rows_with_phs_and_defaults(columns, defaults_per_entity.v)
                           ELSE rows_with_phs(qty, Len(columns))]
        stmt == IF returning
                THEN StrAdd(stmt0, <<SQL(" RETURNING "), Fld("columns")>>) ELSE stmt0
    IN Format(stmt, params)

PkPlaceholder(pk_column, named_phs) ==
    IF named_phs THEN <<Placeholder(pk_column)>> ELSE <<Placeholder("")>>

select_by_pk(table, pk_column, columns, named_phs) ==
    Format(<<SQL("SELECT "), Fld("columns"), SQL(" FROM "), Fld("table"),
             SQL(" WHERE "), Fld("pk_column"), SQL(" = "), Fld("phs")>>,
           [columns |-> csidentifiers(columns),
            table |-> <<Identifier(table)>>,
            pk_column |-> <<Identifier(pk_column)>>,
            phs |-> PkPlaceholder(pk_column, named_phs)])

\* SQL("{}={}").format(Identifier(column), Placeholder(...)), joined by commas.
columns_with_phs(columns, named_phs) ==
    Join(",", [i \in 1..Len(columns) |->
        <<Identifier(columns[i]), SQL("="),
          IF named_phs THEN Placeholder(columns[i]) ELSE Placeholder("")>>])

\* The part update_by_pk and update_many_by_pk share: RETURNING and format.
UpdateReturning(stmt0, params0, returning, columns) ==
    IF returning
    THEN Format(StrAdd(stmt0, <<SQL(" RETURNING "), Fld("returning")>>),
                params0 @@ ("returning" :> csidentifiers(columns)))
    ELSE Format(stmt0, params0)

update_by_pk(table, pk_column, columns, returning, named_phs) ==
    UpdateReturning(
        <<SQL("UPDATE "), Fld("table"), SQL(" SET "), Fld("columns_values"),
          SQL(" WHERE "), Fld("pk_column"), SQL(" = "), Fld("phs")>>,
        [table |-> <<Identifier(table)>>,
         columns_values |-> columns_with_phs(columns, named_phs),
         pk_column |-> <<Identifier(pk_column)>>,
         phs |-> PkPlaceholder(pk_column, named_phs)],
        returning, columns)

update_many_by_pk(table, pk_column, columns, returning, named_phs) ==
    UpdateReturning(
        <<SQL("UPDATE "), Fld("table"), SQL(" SET "), Fld("columns_values"),
          SQL(" WHERE "), Fld("pk_column"), SQL(" = ANY("), Fld("phs"), SQL(")")>>,
        [table |-> <<Identifier(table)>>,
         columns_values |-> columns_with_phs(columns, named_phs),
         pk_column |-> <<Identifier(pk_column)>>,
         phs |-> PkPlaceholder(pk_column, named_phs)],
        returning, columns)

\* The tail of select_many_by_pk and select_many_by_cpk: ORDER BY, LIMIT, OFFSET.
SelectManyTail(stmt0, params0, order_by, limit, offset) ==
    LET stmt1 == IF TruthyObj(order_by)
                 THEN StrAdd(stmt0, <<SQL(" ORDER BY "), Fld("order_by")>>) ELSE stmt0
        params1 == IF TruthyObj(order_by)
                   THEN params0 @@ ("order_by" :> order_by.v) ELSE params0
        stmt2 == IF TruthyInt(limit)
                 THEN StrAdd(stmt1, <<SQL(" LIMIT "), Fld("limit")>>) ELSE stmt1
        params2 == IF TruthyInt(limit)
                   THEN params1 @@ ("limit" :> <<Literal(limit.v)>>) ELSE params1
        stmt3 == IF TruthyInt(offset)
                 THEN StrAdd(stmt2, <<SQL(" OFFSET "), Fld("offset")>>) ELSE stmt2
        params3 == IF TruthyInt(offset)
                   THEN params2 @@ ("offset" :> <<Literal(offset.v)>>) ELSE params2
    IN Format(stmt3, params3)

select_many_by_pk(table, pk_column, columns, order_by, limit, offset, named_phs) ==
    SelectManyTail(
        <<SQL("SELECT "), Fld("columns"), SQL(" FROM "), Fld("table"), SQL(" WHERE "),
          Fld("pk_column"), SQL(" = ANY("), Fld("phs"), SQL(")")>>,
        [columns |-> csidentifiers(columns),
         table |-> <<Identifier(table)>>,
         pk_column |-> <<Identifier(pk_column)>>,
         phs |-> PkPlaceholder(pk_column, named_phs)],
        order_by, limit, offset)

select_many_by_cpk(table, pk_columns, columns, qty, order_by, limit, offset) ==
    SelectManyTail(
        <<SQL("SELECT "), Fld("columns"), SQL(" FROM "), Fld("table"), SQL(" WHERE ("),
          Fld("pk_columns"), SQL(") IN ("), Fld("phs"), SQL(")")>>,
        [columns |-> csidentifiers(columns),
         table |-> <<Identifier(table)>>,
         pk_columns |-> csidentifiers(pk_columns),
         phs |-> rows_with_phs(qty, Len(pk_columns))],
        order_by, limit, offset)

\* A RETURNING step that leaves the clause out when no columns are given.
DeleteReturning_omits_silently(stmt0, params0, returning, columns, field) ==
    IF returning /\ ~columns.none
    THEN Ok(Format(StrAdd(stmt0, <<SQL(" RETURNING "), Fld(field)>>),
                   params0 @@ (field :> csidentifiers(columns.v))))
    ELSE Ok(Format(stmt0, params0))

\* The RETURNING step shared by the four delete composers.
DeleteReturning(stmt0, params0, returning, columns, field) ==
    IF returning
    THEN IF columns.none
         THEN Raise("ValueError", "If returning is True, columns must be specified.")
         ELSE Ok(Format(StrAdd(stmt0, <<SQL(" RETURNING "), Fld(field)>>),
                        params0 @@ (field :> csidentifiers(columns.v))))
    ELSE Ok(Format(stmt0, params0))

delete_by_pk(table, pk_column, returning, columns, named_phs) ==
    DeleteReturning(
        <<SQL("DELETE FROM "), Fld("table"), SQL(" WHERE "), Fld("pk_column"),
          SQL(" = "), Fld("phs")>>,
        [table |-> <<Identifier(table)>>,
         pk_column |-> <<Identifier(pk_column)>>,
         phs |-> PkPlaceholder(pk_column, named_phs)],
        returning, columns, "columns")

delete_many_by_pk(table, pk_column, returning, columns, named_phs) ==
    DeleteReturning(
        <<SQL("DELETE FROM "), Fld("table"), SQL(" WHERE "), Fld("pk_column"),
          SQL(" = ANY("), Fld("phs"), SQL(")")>>,
        [table |-> <<Identifier(table)>>,
         pk_column |-> <<Identifier(pk_column)>>,
         phs |-> PkPlaceholder(pk_column, named_phs)],
        returning, columns, "columns")

delete_by_cpk(table, pk_columns, returning, columns, named_phs) ==
    DeleteReturning(
        <<SQL("DELETE FROM "), Fld("table"), SQL(" WHERE ("), Fld("pk_columns"),
          SQL(") = ("), Fld("phs"), SQL(")")>>,
        [table |-> <<Identifier(table)>>,
         pk_columns |-> csidentifiers(pk_columns),
         phs |-> csplaceholders(pk_columns, None, named_phs)],
        returning, columns, "columns")

delete_many_by_cpk(table, pk_columns, qty, returning, columns) ==
    DeleteReturning(
        <<SQL("DELETE FROM "), Fld("table"), SQL(" WHERE ("), Fld("pk_columns"),
          SQL(") IN ("), Fld("phs"), SQL(")")>>,
        [table |-> <<Identifier(table)>>,
         pk_columns |-> csidentifiers(pk_columns),
         phs |-> rows_with_phs(qty, Len(pk_columns))],
        returning, columns, "returning")

---------------------------------------------------------------------------
(* c4psycopg/ems/utils.py *)

\* functools.reduce over the rest of columns, t being the tuple built so far;
\* entity[e] raises KeyError(e) when e is no key of entity.
RECURSIVE Entity2TupleReduce(_, _, _, _)
Entity2TupleReduce(t, columns, entity, incomplete) ==
    IF columns = <<>> THEN Ok(t)
    ELSE LET e == Head(columns)
         IN IF incomplete
            THEN Entity2TupleReduce(
                    t \o (IF e \in DOMAIN entity THEN <<entity[e]>> ELSE <<>>),
                    Tail(columns), entity, incomplete)
            ELSE IF e \in DOMAIN entity
                 THEN Entity2TupleReduce(t \o <<entity[e]>>, Tail(columns), entity,
                                         incomplete)
                 ELSE Raise("KeyError", e)

\* An entity2tuple that builds its tuple back to front.
entity2tuple_reversed(columns, entity, incomplete) ==
    Entity2TupleReduce(<<>>, [i \in 1..Len(columns) |-> columns[Len(columns) + 1 - i]],
                       entity, incomplete)

\* An entity2tuple that always skips a missing column.
entity2tuple_always_skips(columns, entity, incomplete) ==
    Entity2TupleReduce(<<>>, columns, entity, TRUE)

\* An entity2tuple that never skips a missing column.
entity2tuple_never_skips(columns, entity, incomplete) ==
    Entity2TupleReduce(<<>>, columns, entity, FALSE)

entity2tuple(columns, entity, incomplete) ==
    Entity2TupleReduce(<<>>, columns, entity, incomplete)

\* A missing_columns with its membership test inverted.
missing_columns_tests_in(incomplete_entity, entity_columns) ==
    LET Present(column) == column \in DOMAIN incomplete_entity
    IN SelectSeq(entity_columns, Present)

missing_columns(incomplete_entity, entity_columns) ==
    LET Missing(column) == column \notin DOMAIN incomplete_entity
    IN SelectSeq(entity_columns, Missing)

\* A default provider is a zero-argument callable; it is modelled by the value it
\* returns.
CallProvider(provider) == provider

\* A missing_values that calls the provider of every column that has one.
missing_values_overrides(incomplete_entity, entity_columns, entity_defaults) ==
    LET keys == {column \in Range(entity_columns) : column \in DOMAIN entity_defaults}
    IN [column \in keys |-> CallProvider(entity_defaults[column])]

missing_values(incomplete_entity, entity_columns, entity_defaults) ==
    LET keys == {column \in Range(entity_columns) :
                    /\ column \notin DOMAIN incomplete_entity
                    /\ column \in DOMAIN entity_defaults}
    IN [column \in keys |-> CallProvider(entity_defaults[column])]

---------------------------------------------------------------------------
(* The psycopg connection and cursor, as the manager uses them.  conn is the   *)
(* list of the calls made on them during one manager call.  The driver may    *)
(* raise at execute, at a fetch or at commit: fails names the step that does. *)

DriverFailures == {"none", "execute", "fetch", "commit"}

\* Bind values are a tuple for positional placeholders, a dict for named ones.
Positional(values) == [kind |-> "tuple", v |-> values]
\* The Python objects a tuple of bind values holds: a plain value (a key, a
\* column's value), a tuple or a list.
PyValue(x) == [value |-> x]
PyTuple(t) == [tuple |-> t]
PyList(l) == [list |-> l]
Named(values) == [kind |-> "dict", v |-> values]

\* psycopg refuses a statement whose placeholders its parameters do not match:
\* "the query has N placeholders but M parameters were passed".
ParamsFit(query, params) ==
    LET phs == {i \in 1..Len(query) : query[i].k = "Ph"}
    IN IF params.kind = "tuple"
       THEN /\ \A i \in phs : query[i].v = ""
            /\ Cardinality(phs) = Len(params.v)
       ELSE \A i \in phs : query[i].v # "" /\ query[i].v \in DOMAIN params.v

\* A with block that commits as soon as it has the cursor, before execute.
WithCursor_commits_before_execute(row_factory, q, params, fetch, commits, fails) ==
    LET opened == <<[op |-> "cursor", row_factory |-> row_factory]>>
        committed == IF commits THEN Append(opened, [op |-> "commit"]) ELSE opened
        executed == Append(committed, [op |-> "execute", query |-> q, params |-> params])
        fetched == Append(executed, [op |-> fetch])
        Closed(log) == Append(log, [op |-> "close"])
    IN IF ~ParamsFit(q, params)
       THEN [ret |-> Raise("ProgrammingError", "execute"), conn |-> Closed(executed)]
       ELSE IF fails = "execute"
       THEN [ret |-> Raise("DatabaseError", "execute"), conn |-> Closed(executed)]
       ELSE IF fails = "fetch" /\ fetch # "rowcount"
       THEN [ret |-> Raise("DatabaseError", fetch), conn |-> Closed(fetched)]
       ELSE [ret |-> Ok([from |-> fetch]), conn |-> Closed(fetched)]

\* A block without the context manager: the cursor stays open when a call raises.
WithCursor_leaks_cursor_on_error(row_factory, q, params, fetch, commits, fails) ==
    LET opened == <<[op |-> "cursor", row_factory |-> row_factory]>>
        executed == Append(opened, [op |-> "execute", query |-> q, params |-> params])
        fetched == Append(executed, [op |-> fetch])
        committed == Append(fetched, [op |-> "commit"])
        Closed(log) == Append(log, [op |-> "close"])
    IN IF ~ParamsFit(q, params)
       THEN [ret |-> Raise("ProgrammingError", "execute"), conn |-> executed]
       ELSE IF fails = "execute"
       THEN [ret |-> Raise("DatabaseError", "execute"), conn |-> executed]
       ELSE IF fails = "fetch" /\ fetch # "rowcount"
       THEN [ret |-> Raise("DatabaseError", fetch), conn |-> fetched]
       ELSE IF ~commits
       THEN [ret |-> Ok([from |-> fetch]), conn |-> Closed(fetched)]
       ELSE IF fails = "commit"
       THEN [ret |-> Raise("DatabaseError", "commit"), conn |-> committed]
       ELSE [ret |-> Ok([from |-> fetch]), conn |-> Closed(committed)]

\* with conn.cursor(row_factory=row_factory) as cur:
\*     cur.execute(q, params); r = cur.<fetch>; [conn.commit()]
\* The with block closes the cursor however the block is left.
WithCursor(row_factory, q, params, fetch, commits, fails) ==
    LET opened == <<[op |-> "cursor", row_factory |-> row_factory]>>
        executed == Append(opened, [op |-> "execute", query |-> q, params |-> params])
        fetched == Append(executed, [op |-> fetch])
        committed == Append(fetched, [op |-> "commit"])
        Closed(log) == Append(log, [op |-> "close"])
    IN IF ~ParamsFit(q, params)
       THEN [ret |-> Raise("ProgrammingError", "execute"), conn |-> Closed(executed)]
       ELSE IF fails = "execute"
       THEN [ret |-> Raise("DatabaseError", "execute"), conn |-> Closed(executed)]
       ELSE IF fails = "fetch" /\ fetch # "rowcount"
       THEN [ret |-> Raise("DatabaseError", fetch), conn |-> Closed(fetched)]
       ELSE IF ~commits
       THEN [ret |-> Ok([from |-> fetch]), conn |-> Closed(fetched)]
       ELSE IF fails = "commit"
       THEN [ret |-> Raise("DatabaseError", "commit"), conn |-> Closed(committed)]
       ELSE [ret |-> Ok([from |-> fetch]), conn |-> Closed(committed)]

---------------------------------------------------------------------------
(* c4psycopg/ems/utils.py: default_row_factory; c4psycopg/ems/em.py *)

\* A decorator that always falls back on dict_row.
default_row_factory_ignores_manager(self, row_factory) ==
    IF row_factory.none THEN "dict_row" ELSE row_factory.v

\* The row_factory the decorated method receives.
default_row_factory(self, row_factory) ==
    IF row_factory.none
    THEN IF self.row_factory.none THEN "dict_row" ELSE self.row_factory.v
    ELSE row_factory.v

\* wrapper(*args, **kwargs): what func is called with.  args[0] is self; args
\* holds the other positional arguments.
wrapper(self, args, kwargs) ==
    LET passed == IF "row_factory" \in DOMAIN kwargs THEN kwargs.row_factory ELSE None
    IN [self |-> self,
        args |-> args,
        kwargs |-> [k \in DOMAIN kwargs \cup {"row_factory"} |->
                       IF k = "row_factory"
                       THEN Some(default_row_factory(self, passed)) ELSE kwargs[k]]]

\* An __init__ that stores the plain INSERT under "rinsert" as well.
EntityManager_caches_insert_twice(table, pk, columns, defaults, row_factory) ==
    LET self == [table |-> table, pk |-> pk, columns |-> <<pk>> \o columns]
        stmt == insert(self.table, self.columns, None, FALSE, TRUE)
    IN [table |-> self.table,
        pk |-> self.pk,
        columns |-> self.columns,
        defaults |-> IF defaults.none THEN EmptyDict ELSE defaults.v,
        row_factory |-> IF row_factory.none THEN Some("dict_row") ELSE row_factory,
        cached_queries |-> [
            insert |-> stmt,
            rinsert |-> stmt,
            select_by_pk |-> select_by_pk(self.table, self.pk, self.columns, FALSE),
            delete_by_pk |->
                delete_by_pk(self.table, self.pk, FALSE, None, FALSE).val,
            rdelete_by_pk |->
                delete_by_pk(self.table, self.pk, TRUE, Some(self.columns), FALSE).val,
            delete_many_by_pk |->
                delete_many_by_pk(self.table, self.pk, FALSE, None, FALSE).val,
            rdelete_many_by_pk |->
                delete_many_by_pk(self.table, self.pk, TRUE, Some(self.columns),
                                  FALSE).val]]

\* EntityManager.__init__: the slots of the new manager.
EntityManager(table, pk, columns, defaults, row_factory) ==
    LET self == [table |-> table,
                 pk |-> pk,
                 columns |-> <<pk>> \o columns,
                 defaults |-> IF defaults.none \/ defaults.v = EmptyDict
                              THEN EmptyDict ELSE defaults.v,
                 row_factory |-> IF row_factory.none THEN Some("dict_row")
                                 ELSE row_factory]
    IN [table |-> self.table,
        pk |-> self.pk,
        columns |-> self.columns,
        defaults |-> self.defaults,
        row_factory |-> self.row_factory,
        cached_queries |-> [
            insert |-> insert(self.table, self.columns, None, FALSE, TRUE),
            rinsert |-> insert(self.table, self.columns, None, TRUE, TRUE),
            select_by_pk |-> select_by_pk(self.table, self.pk, self.columns, FALSE),
            delete_by_pk |->
                delete_by_pk(self.table, self.pk, FALSE, None, FALSE).val,
            rdelete_by_pk |->
                delete_by_pk(self.table, self.pk, TRUE, Some(self.columns), FALSE).val,
            delete_many_by_pk |->
                delete_many_by_pk(self.table, self.pk, FALSE, None, FALSE).val,
            rdelete_many_by_pk |->
                delete_many_by_pk(self.table, self.pk, TRUE, Some(self.columns),
                                  FALSE).val]]

\* An add_defaults that takes a value from every provider, present column or not.
add_defaults_overrides(self, entity) ==
    LET mv == missing_values_overrides(entity, self.columns, self.defaults)
    IN [entity |-> mv @@ entity, ret |-> None]

\* add_defaults(self, entity): what the entity holds afterwards (entity.update(mv))
\* and what the call returns (the method has no return statement).
add_defaults(self, entity) ==
    LET mv == missing_values(entity, self.columns, self.defaults)
    IN [entity |-> mv @@ entity, ret |-> None]

\* A create that composes the statement without filling the entity first.
create_skips_add_defaults(self, entity, returning, use_defaults, row_factory, fails) ==
    LET q == IF use_defaults
             THEN insert(self.table, self.columns,
                         Some(missing_columns(entity, self.columns)), returning, TRUE)
             ELSE IF returning THEN self.cached_queries.rinsert
                  ELSE self.cached_queries.insert
        run == WithCursor(row_factory, q, Named(entity),
                          IF returning THEN "fetchone" ELSE "rowcount", TRUE, fails)
    IN [entity |-> entity, conn |-> run.conn, ret |-> run.ret]

\* create, below the decorator: the caller's entity afterwards, the calls made on
\* the connection and the outcome.
create(self, entity, returning, use_defaults, row_factory, fails) ==
    LET filled == IF use_defaults THEN add_defaults(self, entity).entity ELSE entity
        q == IF use_defaults
             THEN insert(self.table, self.columns,
                         Some(missing_columns(filled, self.columns)), returning, TRUE)
             ELSE IF returning THEN self.cached_queries.rinsert
                  ELSE self.cached_queries.insert
        run == WithCursor(row_factory, q, Named(filled),
                          IF returning THEN "fetchone" ELSE "rowcount", TRUE, fails)
    IN [entity |-> filled, conn |-> run.conn, ret |-> run.ret]

\* utils.missing_columns and utils.entity2tuple applied to whatever the local
\* variable holds: `column not in None`, `e in None` and None[e] raise TypeError.
MissingColumnsOf(x, columns) ==
    IF x.none /\ columns # <<>>
    THEN Raise("TypeError", "argument of type 'NoneType' is not iterable")
    ELSE Ok(missing_columns(IF x.none THEN EmptyDict ELSE x.v, columns))

Entity2TupleOf(columns, x, incomplete) ==
    IF x.none /\ columns # <<>>
    THEN Raise("TypeError", "'NoneType' object is not subscriptable")
    ELSE entity2tuple(columns, IF x.none THEN EmptyDict ELSE x.v, incomplete)

\* The first outcome of outcomes that is a raise, else Ok of all the values.
RECURSIVE AllOk(_, _)
AllOk(done, outcomes) ==
    IF outcomes = <<>> THEN Ok(done)
    ELSE IF Head(outcomes).st = "raise" THEN Head(outcomes)
    ELSE AllOk(Append(done, Head(outcomes).val), Tail(outcomes))

\* An except clause that lets the KeyError through as it is.
CreateManyKeyError_reraises(self, outcome) == outcome

\* The except KeyError clause of create_many.
CreateManyKeyError(self, outcome) ==
    IF outcome.st = "raise" /\ outcome.exc = "KeyError"
    THEN LET mc == outcome.arg
         IN IF mc \in Range(self.columns) THEN Raise("ValueError", mc) ELSE outcome
    ELSE outcome

\* create_many, below the decorator: the caller's entities afterwards, the calls
\* made on the connection and the outcome.
create_many(self, entities, returning, use_defaults, row_factory, fails) ==
    LET added == [i \in 1..Len(entities) |-> add_defaults(self, entities[i])]
        \* what the caller's dicts hold once the map has run
        after == IF use_defaults
                 THEN [i \in 1..Len(entities) |-> added[i].entity] ELSE entities
        \* the local variable entities: tuple(map(self.add_defaults, entities))
        local == IF use_defaults
                 THEN [i \in 1..Len(entities) |-> added[i].ret]
                 ELSE [i \in 1..Len(entities) |-> Some(entities[i])]
        defaults_per_entity ==
            AllOk(<<>>, [i \in 1..Len(local) |-> MissingColumnsOf(local[i], self.columns)])
        opened == <<[op |-> "cursor", row_factory |-> row_factory]>>
        \* tuple(itertools.chain(tuple_entities)): chain is given the one iterable
        \* of tuples, so values is the tuple of the per-entity tuples
        values == CreateManyKeyError(self,
            AllOk(<<>>, [i \in 1..Len(local) |->
                Entity2TupleOf(self.columns, local[i], use_defaults)]))
    IN IF use_defaults /\ defaults_per_entity.st = "raise"
       THEN [entities |-> after, conn |-> <<>>, ret |-> defaults_per_entity]
       ELSE LET q == IF use_defaults
                     THEN insert_many(self.table, self.columns, 1,
                                      Some(defaults_per_entity.val), returning)
                     ELSE insert_many(self.table, self.columns, Len(local), None,
                                      returning)
            IN IF values.st = "raise"
               THEN [entities |-> after,
                     conn |-> Append(opened, [op |-> "close"]),
                     ret |-> values]
               ELSE LET run == WithCursor(row_factory, q,
                                          Positional([i \in 1..Len(values.val) |->
                                                         PyTuple(values.val[i])]),
                                          IF returning THEN "fetchall" ELSE "rowcount",
                                          TRUE, fails)
                    IN [entities |-> after, conn |-> run.conn, ret |-> run.ret]

\* find_by_pk, below the decorator: the with block has no conn.commit().
find_by_pk(self, pk, row_factory, fails) ==
    WithCursor(row_factory, self.cached_queries.select_by_pk,
               Positional(<<PyValue(pk)>>), "fetchone", FALSE, fails)

\* find_many_by_pk, below the decorator: the statement is composed on each call.
find_many_by_pk(self, pk_list, order_by, limit, offset, row_factory, fails) ==
    LET q == select_many_by_pk(self.table, self.pk, self.columns, order_by, limit,
                               offset, FALSE)
    IN WithCursor(row_factory, q, Positional(<<PyList(pk_list)>>), "fetchall", FALSE,
                  fails)

\* EntityManager.delete_by_pk, below the decorator.
EntityManager_delete_by_pk(self, pk, returning, row_factory, fails) ==
    LET q == IF returning THEN self.cached_queries.rdelete_by_pk
             ELSE self.cached_queries.delete_by_pk
    IN WithCursor(row_factory, q, Positional(<<PyValue(pk)>>),
                  IF returning THEN "fetchone" ELSE "rowcount", TRUE, fails)

\* EntityManager.delete_many_by_pk, below the decorator.
EntityManager_delete_many_by_pk(self, pk_list, returning, row_factory, fails) ==
    LET q == IF returning THEN self.cached_queries.rdelete_many_by_pk
             ELSE self.cached_queries.delete_many_by_pk
    IN WithCursor(row_factory, q, Positional(<<PyList(pk_list)>>),
                  IF returning THEN "fetchall" ELSE "rowcount", TRUE, fails)

---------------------------------------------------------------------------
(* The composers, each applied once to arguments drawn in the initial state. *)

ColTuples == SeqsUpTo(ColNames, MaxCols) \ {<<>>}
ReturningTuples == SeqsUpTo(ColNames, MaxCols)
DefaultsTuples == SeqsUpTo(ColNames, MaxDefaults)
PkTuples == SeqsUpTo(ColNames, MaxPkCols) \ {<<>>}
SelectTuples == {<<"customerid">>, <<"customerid", "name">>,
                 <<"customerid", "name", "email">>}
PageSizes == Optional((-1)..MaxPage)
OrderBys == {None,
             Some(ob("name", None, None)),
             Some(commas(<<ob("name", Some("DESC"), None),
                           ob("email", None, Some("LAST"))>>))}

InsertCalls ==
    [fn : {"insert"}, table : TableNames, columns : ColTuples,
     defaults : Optional(DefaultsTuples), returning : BOOLEAN, named_phs : BOOLEAN]

DeletePkCalls ==
    [fn : {"delete_by_pk", "delete_many_by_pk"}, table : TableNames,
     pk_column : ColNames, returning : BOOLEAN,
     columns : Optional(ReturningTuples), named_phs : BOOLEAN]

DeleteCpkCalls ==
    [fn : {"delete_by_cpk"}, table : TableNames, pk_columns : PkTuples,
     returning : BOOLEAN, columns : Optional(ReturningTuples), named_phs : BOOLEAN]

DeleteManyCpkCalls ==
    [fn : {"delete_many_by_cpk"}, table : TableNames, pk_columns : PkTuples,
     qty : 1..MaxQty, returning : BOOLEAN, columns : Optional(ReturningTuples)]

SelectManyPkCalls ==
    [fn : {"select_many_by_pk"}, table : TableNames, pk_column : ColNames,
     columns : SelectTuples, order_by : OrderBys, limit : PageSizes,
     offset : PageSizes, named_phs : BOOLEAN]

SelectManyCpkCalls ==
    [fn : {"select_many_by_cpk"}, table : TableNames, pk_columns : PkTuples,
     columns : SelectTuples, qty : 1..MaxQty, order_by : OrderBys,
     limit : PageSizes, offset : PageSizes]

\* The default sets a row of rows_with_phs_and_defaults may be given.
RowDefaults ==
    {<<>>, <<"customerid">>, <<"email", "customerid">>,
     <<"name", "email", "customerid">>, <<"esclavo", "name">>}

RowsCalls ==
    [fn : {"rows_with_phs_and_defaults"}, columns : ColTuples,
     defaults_per_entity : SeqsUpTo(RowDefaults, MaxQty)]

InsertManyCalls ==
    [fn : {"insert_many"}, table : TableNames, columns : SelectTuples,
     qty : 1..MaxQty, defaults_per_entity : Optional(SeqsUpTo(RowDefaults, MaxQty)),
     returning : BOOLEAN]

UpdateCalls ==
    [fn : {"update_by_pk", "update_many_by_pk"}, table : TableNames,
     pk_column : ColNames, columns : ColTuples, returning : BOOLEAN,
     named_phs : BOOLEAN]

QueriesInit ==
    /\ \/ call \in InsertCalls
       \/ call \in RowsCalls
       \/ call \in InsertManyCalls
       \/ call \in UpdateCalls
       \/ call \in DeletePkCalls
       \/ call \in DeleteCpkCalls
       \/ call \in DeleteManyCpkCalls
       \/ call \in SelectManyPkCalls
       \/ call \in SelectManyCpkCalls
    /\ ret = Pending
    /\ caller_entity = EmptyDict
    /\ em = NoManager
    /\ ents = <<>>
    /\ conn = <<>>
    /\ memo = NoMemo

Returns(outcome) ==
    /\ ret = Pending
    /\ ret' = outcome
    /\ UNCHANGED <<call, caller_entity, em, ents, conn, memo>>

Insert ==
    /\ call.fn = "insert"
    /\ Returns(Ok(insert(call.table, call.columns, call.defaults, call.returning,
                         call.named_phs)))

DeleteByPk ==
    /\ call.fn = "delete_by_pk"
    /\ Returns(delete_by_pk(call.table, call.pk_column, call.returning, call.columns,
                            call.named_phs))

DeleteManyByPk ==
    /\ call.fn = "delete_many_by_pk"
    /\ Returns(delete_many_by_pk(call.table, call.pk_column, call.returning,
                                 call.columns, call.named_phs))

DeleteByCpk ==
    /\ call.fn = "delete_by_cpk"
    /\ Returns(delete_by_cpk(call.table, call.pk_columns, call.returning, call.columns,
                             call.named_phs))

DeleteManyByCpk ==
    /\ call.fn = "delete_many_by_cpk"
    /\ Returns(delete_many_by_cpk(call.table, call.pk_columns, call.qty,
                                  call.returning, call.columns))

SelectManyByPk ==
    /\ call.fn = "select_many_by_pk"
    /\ Returns(Ok(select_many_by_pk(call.table, call.pk_column, call.columns,
                                    call.order_by, call.limit, call.offset,
                                    call.named_phs)))

SelectManyByCpk ==
    /\ call.fn = "select_many_by_cpk"
    /\ Returns(Ok(select_many_by_cpk(call.table, call.pk_columns, call.columns,
                                     call.qty, call.order_by, call.limit,
                                     call.offset)))

RowsWithPhsAndDefaults ==
    /\ call.fn = "rows_with_phs_and_defaults"
    /\ Returns(Ok(rows_with_phs_and_defaults(call.columns, call.defaults_per_entity)))

InsertMany ==
    /\ call.fn = "insert_many"
    /\ Returns(Ok(insert_many(call.table, call.columns, call.qty,
                              call.defaults_per_entity, call.returning)))

UpdateByPk ==
    /\ call.fn = "update_by_pk"
    /\ Returns(Ok(update_by_pk(call.table, call.pk_column, call.columns,
                               call.returning, call.named_phs)))

UpdateManyByPk ==
    /\ call.fn = "update_many_by_pk"
    /\ Returns(Ok(update_many_by_pk(call.table, call.pk_column, call.columns,
                                    call.returning, call.named_phs)))

QueriesNext ==
    \/ Insert
    \/ RowsWithPhsAndDefaults
    \/ InsertMany
    \/ UpdateByPk
    \/ UpdateManyByPk
    \/ DeleteByPk
    \/ DeleteManyByPk
    \/ DeleteByCpk
    \/ DeleteManyByCpk
    \/ SelectManyByPk
    \/ SelectManyByCpk

SpecQueries == QueriesInit /\ [][QueriesNext]_vars

---------------------------------------------------------------------------
(* Reading a composed statement back: its clauses and their comma lists. *)

Done(fns) == call.fn \in fns /\ ret # Pending

\* The first position of token t in stmt, 0 when there is none.
Pos(stmt, t) ==
    IF \E i \in 1..Len(stmt) : stmt[i] = t
    THEN CHOOSE i \in 1..Len(stmt) : stmt[i] = t /\ \A j \in 1..(i - 1) : stmt[j] # t
    ELSE 0

\* The first position of a piece of text that is one of ts, 0 when there is none.
PosAny(stmt, ts) ==
    IF \E i \in 1..Len(stmt) : stmt[i].k = "SQL" /\ stmt[i].v \in ts
    THEN CHOOSE i \in 1..Len(stmt) :
            /\ stmt[i].k = "SQL" /\ stmt[i].v \in ts
            /\ \A j \in 1..(i - 1) : ~(stmt[j].k = "SQL" /\ stmt[j].v \in ts)
    ELSE 0

\* seq is item , item , ... , item (or empty); Items(seq) are its items.
CommaSeparated(seq) ==
    \/ seq = <<>>
    \/ /\ Len(seq) % 2 = 1
       /\ \A i \in 1..Len(seq) : (i % 2 = 0) <=> (seq[i] = SQL(","))
Items(seq) == [i \in 1..((Len(seq) + 1) \div 2) |-> seq[2 * i - 1]]

\* A keyword clause starts at a piece of text that ends with the keyword.
ClauseTexts(kw) == {" " \o kw \o " ", ") " \o kw \o " "}
HasClause(stmt, kw) == PosAny(stmt, ClauseTexts(kw)) # 0
ClauseBody(stmt, kw) == SubSeq(stmt, PosAny(stmt, ClauseTexts(kw)) + 1, Len(stmt))

\* The parenthesised column list and VALUES list of an INSERT statement.
InsertColumnList(stmt) ==
    SubSeq(stmt, Pos(stmt, SQL(" (")) + 1, Pos(stmt, SQL(") VALUES (")) - 1)
InsertValuesList(stmt) ==
    SubSeq(stmt, Pos(stmt, SQL(") VALUES (")) + 1,
           IF HasClause(stmt, "RETURNING")
           THEN PosAny(stmt, ClauseTexts("RETURNING")) - 1 ELSE Len(stmt) - 1)
InsertWellFormed(stmt) ==
    /\ Len(stmt) >= 5
    /\ stmt[1] = SQL("INSERT INTO ") /\ stmt[2].k = "Id" /\ stmt[3] = SQL(" (")
    /\ Pos(stmt, SQL(") VALUES (")) > 3
    /\ \/ HasClause(stmt, "RETURNING")
       \/ stmt[Len(stmt)] = SQL(")")

PlaceholderFor(column, named_phs) ==
    IF named_phs THEN Placeholder(column) ELSE Placeholder("")

---------------------------------------------------------------------------
\* C1: insert(T, C) with no defaults, for either placeholder style and with or
\* without RETURNING, is an INSERT into T whose column list is exactly C in order
\* and whose VALUES list has len(C) slots, slot i being the placeholder of C[i].
C1_InsertColumnsAndSlots ==
    (Done({"insert"}) /\ call.defaults = None) =>
        /\ ret.st = "ok"
        /\ InsertWellFormed(ret.val)
        /\ ret.val[2] = Identifier(call.table)
        /\ LET cl == InsertColumnList(ret.val)
               vl == InsertValuesList(ret.val)
               C == call.columns
           IN /\ CommaSeparated(cl)
              /\ Items(cl) = [i \in 1..Len(C) |-> Identifier(C[i])]
              /\ CommaSeparated(vl)
              /\ Len(Items(vl)) = Len(C)
              /\ \A i \in 1..Len(C) :
                    Items(vl)[i] = PlaceholderFor(C[i], call.named_phs)

C1_Witness ==
    /\ Done({"insert"}) /\ call.defaults = None
    /\ call.columns = <<"name", "customerid", "email">>
    /\ call.returning /\ ~call.named_phs
    /\ Len(Items(InsertValuesList(ret.val))) = 3

\* C2: for every C, every defaults tuple D (or none) and both placeholder styles,
\* the VALUES list of insert has len(C) items in column order, item i being DEFAULT
\* iff C[i] is in D and the placeholder of C[i] otherwise; so the statement has as
\* many placeholders in its VALUES list as C has columns that are not in D.
C2_InsertDefaultsAndPlaceholders ==
    Done({"insert"}) =>
        /\ ret.st = "ok"
        /\ InsertWellFormed(ret.val)
        /\ LET vl == InsertValuesList(ret.val)
               C == call.columns
               D == IF call.defaults = None THEN {} ELSE Range(call.defaults.v)
           IN /\ CommaSeparated(vl)
              /\ Len(Items(vl)) = Len(C)
              /\ \A i \in 1..Len(C) :
                    /\ (Items(vl)[i] = SQL("DEFAULT")) <=> (C[i] \in D)
                    /\ C[i] \notin D =>
                          Items(vl)[i] = PlaceholderFor(C[i], call.named_phs)
              /\ Cardinality({i \in 1..Len(vl) : vl[i].k = "Ph"})
                    = Cardinality({i \in 1..Len(C) : C[i] \notin D})

C2_Witness ==
    /\ Done({"insert"})
    /\ call.columns = <<"customerid", "name", "email">>
    /\ call.defaults = Some(<<"email", "customerid">>)
    /\ ~call.named_phs
    /\ InsertValuesList(ret.val)
          = <<SQL("DEFAULT"), SQL(","), Placeholder(""), SQL(","), SQL("DEFAULT")>>

DeleteComposers ==
    {"delete_by_pk", "delete_many_by_pk", "delete_by_cpk", "delete_many_by_cpk"}

\* C3: each of the four delete composers, called with returning=True and no column
\* list, fails with a ValueError and returns no statement; with returning=True and
\* a column list it returns a statement ending in RETURNING and exactly those
\* columns in order; with returning=False its statement has no RETURNING clause.
C3_DeleteReturning ==
    Done(DeleteComposers) =>
        /\ (call.returning /\ call.columns = None) =>
              ret.st = "raise" /\ ret.exc = "ValueError"
        /\ (call.returning /\ call.columns # None) =>
              /\ ret.st = "ok"
              /\ HasClause(ret.val, "RETURNING")
              /\ LET body == ClauseBody(ret.val, "RETURNING")
                     R == call.columns.v
                 IN /\ CommaSeparated(body)
                    /\ body = <<>> <=> R = <<>>
                    /\ R # <<>> => Items(body) = [i \in 1..Len(R) |-> Identifier(R[i])]
        /\ ~call.returning =>
              /\ ret.st = "ok"
              /\ ~HasClause(ret.val, "RETURNING")
              /\ ret.val[1] = SQL("DELETE FROM ")

C3_Witness ==
    /\ Done({"delete_many_by_cpk"})
    /\ call.returning
    /\ call.columns = Some(<<"email", "name">>)
    /\ ClauseBody(ret.val, "RETURNING")
          = <<Identifier("email"), SQL(","), Identifier("name")>>

C3_WitnessError ==
    /\ Done({"delete_by_cpk"})
    /\ call.returning /\ call.columns = None
    /\ ret.st = "raise"

\* C4: select_many_by_pk and select_many_by_cpk append a LIMIT clause iff limit is
\* given and greater than 0, and an OFFSET clause iff offset is given and greater
\* than 0 (so not for None, 0 or a negative integer), each independently.
C4_LimitOffsetOnlyWhenPositive ==
    Done({"select_many_by_pk", "select_many_by_cpk"}) =>
        /\ ret.st = "ok"
        /\ HasClause(ret.val, "LIMIT") <=> (call.limit # None /\ call.limit.v > 0)
        /\ HasClause(ret.val, "OFFSET") <=> (call.offset # None /\ call.offset.v > 0)

---------------------------------------------------------------------------
(* The entity shape utilities, each applied once to a caller's entity. *)

Dicts(K, V) == UNION {[S -> V] : S \in SUBSET K}
Entities == Dicts(EntityKeys, Values)
Providers == Dicts(ColNames, ProviderValues)
AnyColTuples == SeqsUpTo(ColNames, MaxCols)

\* Calls of a method decorated with default_row_factory.
WrapperCalls ==
    [fn : {"default_row_factory"},
     self : {[row_factory |-> None], [row_factory |-> Some("tuple_row")]},
     args : SeqsUpTo(Values, MaxQty),
     kwargs : [returning : BOOLEAN]
              \cup [row_factory : {None, Some("namedtuple_row")}]
              \cup [returning : BOOLEAN, row_factory : {None, Some("namedtuple_row")}]]

UtilsInit ==
    /\ \/ /\ caller_entity \in Entities
          /\ \/ call \in [fn : {"entity2tuple"}, columns : AnyColTuples,
                          entity : {caller_entity}, incomplete : BOOLEAN]
             \/ call \in [fn : {"missing_columns"},
                          incomplete_entity : {caller_entity},
                          entity_columns : AnyColTuples]
             \/ call \in [fn : {"missing_values"},
                          incomplete_entity : {caller_entity},
                          entity_columns : AnyColTuples, entity_defaults : Providers]
       \/ /\ caller_entity = EmptyDict
          /\ call \in WrapperCalls
    /\ ret = Pending
    /\ em = NoManager
    /\ ents = <<>>
    /\ conn = <<>>
    /\ memo = NoMemo

Entity2Tuple ==
    /\ call.fn = "entity2tuple"
    /\ Returns(entity2tuple(call.columns, caller_entity, call.incomplete))

MissingColumns ==
    /\ call.fn = "missing_columns"
    /\ Returns(Ok(missing_columns(caller_entity, call.entity_columns)))

MissingValues ==
    /\ call.fn = "missing_values"
    /\ Returns(Ok(missing_values(caller_entity, call.entity_columns,
                                  call.entity_defaults)))

DefaultRowFactory ==
    /\ call.fn = "default_row_factory"
    /\ Returns(Ok(wrapper(call.self, call.args, call.kwargs)))

UtilsNext ==
    \/ DefaultRowFactory
    \/ Entity2Tuple
    \/ MissingColumns
    \/ MissingValues

SpecUtils == UtilsInit /\ [][UtilsNext]_vars

\* The positions of columns whose column is, or is not, a key of the entity.
PresentAt(C, E) == {i \in 1..Len(C) : C[i] \in DOMAIN E}
MissingAt(C, E) == {i \in 1..Len(C) : C[i] \notin DOMAIN E}
\* How many positions of S are at or before i.
Rank(S, i) == Cardinality({j \in S : j <= i})
Min(S) == CHOOSE i \in S : \A j \in S : i <= j

\* C5: when E has every column of C, entity2tuple(C, E, incomplete=False) returns
\* a tuple of length len(C) whose i-th element is E[C[i]], and nothing else.
C5_Entity2TupleComplete ==
    (Done({"entity2tuple"}) /\ ~call.incomplete
        /\ Range(call.columns) \subseteq DOMAIN call.entity) =>
        /\ ret.st = "ok"
        /\ Len(ret.val) = Len(call.columns)
        /\ \A i \in 1..Len(call.columns) : ret.val[i] = call.entity[call.columns[i]]

C5_Witness ==
    /\ Done({"entity2tuple"}) /\ ~call.incomplete
    /\ call.columns = <<"email", "customerid", "name">>
    /\ call.entity = [customerid |-> 1, name |-> 2, email |-> 2, esclavo |-> 1]
    /\ ret = Ok(<<2, 1, 2>>)

\* C6: when E lacks a column of C, entity2tuple(C, E, incomplete=False) fails with
\* a KeyError naming the first column of C, in column order, that E lacks, and
\* returns no tuple.
C6_Entity2TupleMissingKey ==
    (Done({"entity2tuple"}) /\ ~call.incomplete
        /\ MissingAt(call.columns, call.entity) # {}) =>
        /\ ret.st = "raise"
        /\ ret.exc = "KeyError"
        /\ ret.arg = call.columns[Min(MissingAt(call.columns, call.entity))]

C6_Witness ==
    /\ Done({"entity2tuple"}) /\ ~call.incomplete
    /\ call.columns = <<"customerid", "email", "name">>
    /\ DOMAIN call.entity = {"customerid", "esclavo"}
    /\ ret = Raise("KeyError", "email")

\* C7: entity2tuple(C, E, incomplete=True) never fails and returns the values of
\* exactly the columns of C that E has, in the order of C; its length is len(C)
\* minus the number of columns of C that E lacks.
C7_Entity2TupleIncomplete ==
    (Done({"entity2tuple"}) /\ call.incomplete) =>
        LET C == call.columns
            E == call.entity
        IN /\ ret.st = "ok"
           /\ Len(ret.val) = Len(C) - Cardinality(MissingAt(C, E))
           /\ \A i \in PresentAt(C, E) : ret.val[Rank(PresentAt(C, E), i)] = E[C[i]]

C7_Witness ==
    /\ Done({"entity2tuple"}) /\ call.incomplete
    /\ call.columns = <<"customerid", "email", "name">>
    /\ call.entity = [customerid |-> 1, name |-> 2]
    /\ ret = Ok(<<1, 2>>)

\* C8: missing_columns(E, C) is exactly the columns of C that are no keys of E, in
\* the order they have in C; they and the columns of C that E has are disjoint and
\* together are set(C); a key of E outside C never appears.
C8_MissingColumnsPartition ==
    Done({"missing_columns"}) =>
        LET C == call.entity_columns
            E == call.incomplete_entity
            present == {c \in Range(C) : c \in DOMAIN E}
        IN /\ ret.st = "ok"
           /\ Len(ret.val) = Cardinality(MissingAt(C, E))
           /\ \A i \in MissingAt(C, E) : ret.val[Rank(MissingAt(C, E), i)] = C[i]
           /\ Range(ret.val) \cap present = {}
           /\ Range(ret.val) \cup present = Range(C)
           /\ Range(ret.val) \cap (DOMAIN E \ Range(C)) = {}

C8_Witness ==
    /\ Done({"missing_columns"})
    /\ call.entity_columns = <<"email", "name", "customerid">>
    /\ DOMAIN call.incomplete_entity = {"name", "esclavo"}
    /\ ret = Ok(<<"email", "customerid">>)

\* C9: missing_values(E, C, P) is a mapping whose keys are exactly the columns of C
\* that E lacks and P provides, each mapped to what its provider returns; a column
\* E lacks with no provider and a column E has are left out; E is not modified.
C9_MissingValues ==
    Done({"missing_values"}) =>
        LET C == call.entity_columns
            E == call.incomplete_entity
            P == call.entity_defaults
        IN /\ ret.st = "ok"
           /\ \A c \in ColNames \cup EntityKeys :
                (c \in DOMAIN ret.val)
                    <=> (c \in Range(C) /\ c \notin DOMAIN E /\ c \in DOMAIN P)
           /\ \A c \in DOMAIN ret.val : ret.val[c] = P[c]
           /\ caller_entity = E

C9_Witness ==
    /\ Done({"missing_values"})
    /\ call.entity_columns = <<"customerid", "name", "email">>
    /\ call.incomplete_entity = [customerid |-> 1]
    /\ call.entity_defaults = [customerid |-> 8, name |-> 9]
    /\ ret = Ok([name |-> 9])

---------------------------------------------------------------------------
(* The EntityManager: constructed once, then called by a caller who holds the  *)
(* entities and, after each call returns or raises, goes on to the next call.  *)

EmTable == "customer"
EmPk == "customerid"
EmColumnTuples == {<<>>, <<"name", "email">>, <<"customerid", "name">>}
EmDefaults == {None, Some([name |-> 8]), Some([customerid |-> 8, email |-> 9])}
RowFactories == {None, Some("tuple_row")}
EmEntities ==
    {[c \in S |-> 1] : S \in {{}, {"customerid"}, {"customerid", "email"},
                               {"customerid", "name", "email"}}}
\* What the caller passes as row_factory and where the driver fails, if anywhere.
Circumstances ==
    {<<None, f>> : f \in DriverFailures} \cup {<<Some("namedtuple_row"), "none">>}

\* The keys a caller looks up or deletes, and the paging of find_many_by_pk.
PkLists == {<<>>, <<1>>, <<1, 2>>}
FindPages == {<<None, None, None>>,
              <<Some(ob("name", Some("DESC"), None)), Some(MaxPage), Some(1)>>}

Init ==
    /\ call = Idle
    /\ ret = Pending
    /\ caller_entity = EmptyDict
    /\ em = NoManager
    /\ ents \in SeqsUpTo(EmEntities, MaxEnts)
    /\ conn = <<>>
    /\ memo = NoMemo

Constructed == em # NoManager
CanCall == call = Idle /\ Constructed

Construct ==
    /\ call = Idle /\ ~Constructed
    /\ \E columns \in EmColumnTuples, defaults \in EmDefaults,
          row_factory \in RowFactories :
          /\ row_factory # None => (columns = <<"name", "email">> /\ defaults = None)
          /\ call' = [fn |-> "EntityManager", table |-> EmTable, pk |-> EmPk,
                      columns |-> columns, defaults |-> defaults,
                      row_factory |-> row_factory]
          /\ em' = EntityManager(EmTable, EmPk, columns, defaults, row_factory)
          /\ ret' = Ok(None)
    /\ UNCHANGED <<caller_entity, ents, conn, memo>>

AddDefaults ==
    /\ CanCall
    /\ \E i \in 1..Len(ents) :
          LET r == add_defaults(em, ents[i])
          IN /\ call' = [fn |-> "add_defaults", i |-> i, entity |-> ents[i]]
             /\ ents' = [ents EXCEPT ![i] = r.entity]
             /\ ret' = Ok(r.ret)
    /\ UNCHANGED <<caller_entity, em, conn, memo>>

Create ==
    /\ CanCall
    /\ \E i \in 1..Len(ents), returning \in BOOLEAN, use_defaults \in BOOLEAN,
          c \in Circumstances :
          LET row_factory == c[1]
              r == create(em, ents[i], returning, use_defaults,
                          default_row_factory(em, row_factory), c[2])
          IN /\ call' = [fn |-> "create", i |-> i, entity |-> ents[i],
                         returning |-> returning, use_defaults |-> use_defaults,
                         row_factory |-> row_factory, fails |-> c[2]]
             /\ ents' = [ents EXCEPT ![i] = r.entity]
             /\ conn' = r.conn
             /\ ret' = r.ret
    /\ UNCHANGED <<caller_entity, em, memo>>

CreateMany ==
    /\ CanCall
    /\ \E returning \in BOOLEAN, use_defaults \in BOOLEAN, c \in Circumstances :
          LET row_factory == c[1]
              r == create_many(em, ents, returning, use_defaults,
                               default_row_factory(em, row_factory), c[2])
          IN /\ call' = [fn |-> "create_many", entities |-> ents,
                         returning |-> returning, use_defaults |-> use_defaults,
                         row_factory |-> row_factory, fails |-> c[2]]
             /\ ents' = r.entities
             /\ conn' = r.conn
             /\ ret' = r.ret
    /\ UNCHANGED <<caller_entity, em, memo>>

FindByPk ==
    /\ CanCall
    /\ \E pk \in Values, c \in Circumstances :
          LET row_factory == c[1]
              r == find_by_pk(em, pk, default_row_factory(em, row_factory), c[2])
          IN /\ call' = [fn |-> "find_by_pk", pk |-> pk,
                         row_factory |-> row_factory, fails |-> c[2]]
             /\ conn' = r.conn
             /\ ret' = r.ret
    /\ UNCHANGED <<caller_entity, em, ents, memo>>

FindManyByPk ==
    /\ CanCall
    /\ \E pk_list \in PkLists, page \in FindPages, c \in Circumstances :
          LET row_factory == c[1]
              r == find_many_by_pk(em, pk_list, page[1], page[2], page[3],
                                   default_row_factory(em, row_factory), c[2])
          IN /\ call' = [fn |-> "find_many_by_pk", pk_list |-> pk_list,
                         order_by |-> page[1], limit |-> page[2], offset |-> page[3],
                         row_factory |-> row_factory, fails |-> c[2]]
             /\ conn' = r.conn
             /\ ret' = r.ret
    /\ UNCHANGED <<caller_entity, em, ents, memo>>

DeleteByPkCall ==
    /\ CanCall
    /\ \E pk \in Values, returning \in BOOLEAN, c \in Circumstances :
          LET row_factory == c[1]
              r == EntityManager_delete_by_pk(em, pk, returning,
                                              default_row_factory(em, row_factory), c[2])
          IN /\ call' = [fn |-> "em.delete_by_pk", pk |-> pk, returning |-> returning,
                         row_factory |-> row_factory, fails |-> c[2]]
             /\ conn' = r.conn
             /\ ret' = r.ret
    /\ UNCHANGED <<caller_entity, em, ents, memo>>

DeleteManyByPkCall ==
    /\ CanCall
    /\ \E pk_list \in PkLists, returning \in BOOLEAN, c \in Circumstances :
          LET row_factory == c[1]
              r == EntityManager_delete_many_by_pk(em, pk_list, returning,
                       default_row_factory(em, row_factory), c[2])
          IN /\ call' = [fn |-> "em.delete_many_by_pk", pk_list |-> pk_list,
                         returning |-> returning, row_factory |-> row_factory, fails |-> c[2]]
             /\ conn' = r.conn
             /\ ret' = r.ret
    /\ UNCHANGED <<caller_entity, em, ents, memo>>

\* The call has returned or raised; the caller goes on.
CallerContinues ==
    /\ call # Idle
    /\ call' = Idle
    /\ ret' = Pending
    /\ conn' = <<>>
    /\ UNCHANGED <<caller_entity, em, ents, memo>>

Next ==
    \/ Construct
    \/ AddDefaults
    \/ Create
    \/ CreateMany
    \/ FindByPk
    \/ FindManyByPk
    \/ DeleteByPkCall
    \/ DeleteManyByPkCall
    \/ CallerContinues

Spec == Init /\ [][Next]_vars

\* C10: add_defaults merges missing_values(entity, columns, defaults) into the
\* given entity in place and returns that same, now filled, entity, so that
\* create_many's map of add_defaults over its entities is the tuple of the filled
\* entities (and its default-filling step does not fail on it).
C10_AddDefaultsReturnsFilledEntity ==
    /\ Done({"add_defaults"}) =>
          LET filled == missing_values(call.entity, em.columns, em.defaults)
                            @@ call.entity
          IN /\ ents[call.i] = filled
             /\ ret = Ok(Some(filled))
    /\ (Done({"create_many"}) /\ call.use_defaults) =>
          ~(ret.st = "raise" /\ ret.exc = "TypeError")

\* The number of times x occurs in seq.
Count(seq, x) == Cardinality({i \in 1..Len(seq) : seq[i] = x})

\* C11: constructing an EntityManager whose columns argument contains the pk name
\* fails with ValueError('The pk must not be included in the columns.') and yields
\* no manager, so no constructed manager has the pk name twice in its columns.
C11_PkNotAmongColumns ==
    /\ (Done({"EntityManager"}) /\ call.pk \in Range(call.columns)) =>
          /\ ret = Raise("ValueError", "The pk must not be included in the columns.")
          /\ ~Constructed
    /\ Constructed => Count(em.columns, em.pk) = 1

\* The seven statements of cached_queries, composed anew for the manager m.
ComposedFor(m) ==
    [insert |-> insert(m.table, m.columns, None, FALSE, TRUE),
     rinsert |-> insert(m.table, m.columns, None, TRUE, TRUE),
     select_by_pk |-> select_by_pk(m.table, m.pk, m.columns, FALSE),
     delete_by_pk |-> delete_by_pk(m.table, m.pk, FALSE, None, FALSE).val,
     rdelete_by_pk |-> delete_by_pk(m.table, m.pk, TRUE, Some(m.columns), FALSE).val,
     delete_many_by_pk |-> delete_many_by_pk(m.table, m.pk, FALSE, None, FALSE).val,
     rdelete_many_by_pk |->
         delete_many_by_pk(m.table, m.pk, TRUE, Some(m.columns), FALSE).val]

ManagerOperations ==
    {"add_defaults", "create", "create_many", "find_by_pk", "find_many_by_pk",
     "em.delete_by_pk", "em.delete_many_by_pk"}

\* C12: after construction and after any sequence of manager operations, failed
\* or not, the manager's columns are (pk,) + the columns passed at construction
\* and cached_queries holds exactly the seven statements insert, rinsert,
\* select_by_pk, delete_by_pk, rdelete_by_pk, delete_many_by_pk and
\* rdelete_many_by_pk, each the composer's output for the manager's table, pk and
\* columns; no operation modifies table, pk, columns, defaults or cached_queries.
C12_DescriptorAndCacheFixed ==
    /\ [](Done({"EntityManager"}) =>
             /\ em.table = call.table
             /\ em.pk = call.pk
             /\ em.columns = <<call.pk>> \o call.columns)
    /\ [](Constructed =>
             /\ DOMAIN em.cached_queries =
                    {"insert", "rinsert", "select_by_pk", "delete_by_pk",
                     "rdelete_by_pk", "delete_many_by_pk", "rdelete_many_by_pk"}
             /\ em.cached_queries = ComposedFor(em))
    /\ [][Constructed =>
             /\ em'.table = em.table
             /\ em'.pk = em.pk
             /\ em'.columns = em.columns
             /\ em'.defaults = em.defaults
             /\ em'.cached_queries = em.cached_queries]_vars

\* A full three-column manager, intact after a create that failed on an entity
\* other than the caller's first.
C12_Witness ==
    /\ Done({"create"}) /\ ret.st = "raise"
    /\ ents # <<>> /\ ents[1] # call.entity
    /\ em.columns = <<"customerid", "name", "email">>
    /\ em.cached_queries.rdelete_by_pk =
          <<SQL("DELETE FROM "), Identifier("customer"), SQL(" WHERE "),
            Identifier("customerid"), SQL(" = "), Placeholder(""),
            SQL(" RETURNING "), Identifier("customerid"), SQL(","),
            Identifier("name"), SQL(","), Identifier("email")>>

\* The entity E once every column of m that E lacks and that has a provider holds
\* the provider's value.
Filled(m, E) ==
    [c \in DOMAIN E \cup (Range(m.columns) \cap DOMAIN m.defaults) |->
        IF c \in DOMAIN E THEN E[c] ELSE m.defaults[c]]

\* The call made on the cursor's execute during the current manager call.
Executes == {i \in 1..Len(conn) : conn[i].op = "execute"}
Executed == conn[CHOOSE i \in Executes : TRUE]

\* C13: create with use_defaults=True first fills the entity's missing columns
\* that have a provider; the statement passed to execute then has, for each
\* manager column c in column order, the named placeholder of c if c is a key of
\* the filled entity and DEFAULT otherwise; so every named placeholder of the
\* executed statement has a bind value in the entity passed to execute and no
\* column present in the entity is rendered as DEFAULT.
C13_CreateWithDefaults ==
    (Done({"create"}) /\ call.use_defaults) =>
        LET filled == Filled(em, call.entity)
            C == em.columns
        IN /\ ents[call.i] = filled
           /\ Cardinality(Executes) = 1
           /\ Executed.params = Named(filled)
           /\ InsertWellFormed(Executed.query)
           /\ LET vl == InsertValuesList(Executed.query)
              IN /\ CommaSeparated(vl)
                 /\ Len(Items(vl)) = Len(C)
                 /\ \A i \in 1..Len(C) :
                       Items(vl)[i] = IF C[i] \in DOMAIN filled
                                      THEN Placeholder(C[i]) ELSE SQL("DEFAULT")
           /\ \A j \in 1..Len(Executed.query) :
                 Executed.query[j].k = "Ph" =>
                     Executed.query[j].v \in DOMAIN Executed.params.v

\* {customerid: 1} created on (customerid, name, email) with a provider for name.
C13_Witness ==
    /\ Done({"create"}) /\ call.use_defaults /\ call.returning
    /\ call.entity = [customerid |-> 1]
    /\ em.columns = <<"customerid", "name", "email">>
    /\ ents[call.i] = [customerid |-> 1, name |-> 8]
    /\ InsertValuesList(Executed.query) =
          <<Placeholder("customerid"), SQL(","), Placeholder("name"), SQL(","),
            SQL("DEFAULT")>>
    /\ ret = Ok([from |-> "fetchone"])

Commits == {i \in 1..Len(conn) : conn[i].op = "commit"}

\* C14: create with use_defaults=False uses the pre-built full statement, and when
\* the entity lacks a manager column the call fails with an error naming the first
\* missing column (in column order), raised by the manager before execute is
\* called on the cursor; no commit happens.
C14_CreateWithoutDefaultsNamesMissing ==
    (Done({"create"}) /\ ~call.use_defaults) =>
        /\ \A i \in Executes :
              conn[i].query = IF call.returning THEN em.cached_queries.rinsert
                              ELSE em.cached_queries.insert
        /\ MissingAt(em.columns, call.entity) # {} =>
              /\ ret.st = "raise"
              /\ ret.arg = em.columns[Min(MissingAt(em.columns, call.entity))]
              /\ Executes = {}
              /\ Commits = {}

\* The row groups of a multi-row INSERT: what follows VALUES, up to RETURNING.
InsertManyRows(stmt) ==
    SubSeq(stmt, Pos(stmt, SQL(") VALUES ")) + 1,
           IF HasClause(stmt, "RETURNING")
           THEN PosAny(stmt, ClauseTexts("RETURNING")) - 1 ELSE Len(stmt))
\* rows is R parenthesised groups of n comma-separated slots, comma-separated.
RowsWellFormed(rows, R, n) ==
    /\ Len(rows) = IF R = 0 THEN 0 ELSE R * (2 * n + 2) - 1
    /\ \A p \in 1..Len(rows) :
          LET o == ((p - 1) % (2 * n + 2)) + 1
          IN /\ (o = 1) => rows[p] = SQL("(")
             /\ (o = 2 * n + 1) => rows[p] = SQL(")")
             /\ (o = 2 * n + 2 \/ (o % 2 = 1 /\ 1 < o /\ o < 2 * n + 1))
                    => rows[p] = SQL(",")
\* Slot i of row group r.
RowSlot(rows, n, r, i) == rows[(r - 1) * (2 * n + 2) + 2 * i]

\* C15: create_many with use_defaults=True on a non-empty tuple of entities fills
\* each entity's missing columns that have a provider and reaches execute with one
\* multi-row INSERT that has exactly one row group per entity, in input order,
\* row group i rendering DEFAULT exactly for the columns entity i still lacks after
\* filling and a placeholder for every other column.
C15_CreateManyWithDefaults ==
    (Done({"create_many"}) /\ call.use_defaults /\ call.entities # <<>>) =>
        LET R == Len(call.entities)
            C == em.columns
            filled == [r \in 1..R |-> Filled(em, call.entities[r])]
        IN /\ ents = filled
           /\ Cardinality(Executes) = 1
           /\ LET rows == InsertManyRows(Executed.query)
              IN /\ RowsWellFormed(rows, R, Len(C))
                 /\ \A r \in 1..R, i \in 1..Len(C) :
                       RowSlot(rows, Len(C), r, i) =
                           IF C[i] \in DOMAIN filled[r]
                           THEN Placeholder("") ELSE SQL("DEFAULT")

\* The values entity E supplies, in the order of the columns C.
SuppliedBy(C, E) ==
    LET P == PresentAt(C, E)
    IN [k \in 1..Cardinality(P) |-> E[C[CHOOSE i \in P : Rank(P, i) = k]]]

\* C16: in both modes of create_many the bind values passed to execute are the
\* flat concatenation, in entity order and then column order, of the individual
\* values each entity supplies (not a sequence of per-entity tuples); there are as
\* many of them as the executed statement has placeholders, the k-th value being
\* that of the k-th placeholder.
C16_CreateManyBindsFlatValues ==
    Done({"create_many"}) =>
        \A x \in Executes :
            LET flat == Flatten([r \in 1..Len(ents) |-> SuppliedBy(em.columns, ents[r])])
                phs == {j \in 1..Len(conn[x].query) : conn[x].query[j].k = "Ph"}
            IN /\ conn[x].params.kind = "tuple"
               /\ Len(conn[x].params.v) = Cardinality(phs)
               /\ conn[x].params.v = [k \in 1..Len(flat) |-> PyValue(flat[k])]

\* The entities of the current create_many call that lack a manager column.
Deficient == {r \in 1..Len(call.entities) :
                 MissingAt(em.columns, call.entities[r]) # {}}

MutatingOperations ==
    {"create", "create_many", "em.delete_by_pk", "em.delete_many_by_pk"}
ReadOperations == {"find_by_pk", "find_many_by_pk"}

\* The names of the calls made on the connection and its cursor, in order.
OpsOf(log) == [i \in 1..Len(log) |-> log[i].op]
\* How the current call reads its result: one row, all rows or the row count.
FetchOrCount ==
    IF call.fn \in MutatingOperations /\ ~call.returning THEN "rowcount"
    ELSE IF call.fn \in {"create", "em.delete_by_pk", "find_by_pk"} THEN "fetchone"
    ELSE "fetchall"

\* C18: every successful call of create, create_many, delete_by_pk or
\* delete_many_by_pk uses the connection in this order and no further: acquire one
\* cursor, execute one statement, fetch the row(s) or read the row count, commit
\* once, release the cursor.
C18_MutatingCallSequence ==
    (Done(MutatingOperations) /\ ret.st = "ok") =>
        OpsOf(conn) = <<"cursor", "execute", FetchOrCount, "commit", "close">>

\* A delete_many_by_pk that returned its rows.
C18_Witness ==
    /\ Done({"em.delete_many_by_pk"}) /\ call.returning /\ call.pk_list = <<1, 2>>
    /\ ret = Ok([from |-> "fetchall"])
    /\ OpsOf(conn) = <<"cursor", "execute", "fetchall", "commit", "close">>
    /\ conn[2].query = em.cached_queries.rdelete_many_by_pk

\* C19: find_by_pk and find_many_by_pk follow the same sequence as the other
\* operations, acquire cursor, execute, fetch, commit, release cursor; so no
\* manager call returns without having committed after its statement.
C19_FindCommits ==
    /\ (Done(ReadOperations) /\ ret.st = "ok") =>
          OpsOf(conn) = <<"cursor", "execute", FetchOrCount, "commit", "close">>
    /\ (Done(ManagerOperations) /\ ret.st = "ok") =>
          \A x \in Executes : \E c \in Commits : x < c

\* The calls for a row or the rows made on the cursor during the current call.
Fetches == {i \in 1..Len(conn) : conn[i].op \in {"fetchone", "fetchall"}}
DriverErrors == {"DatabaseError", "ProgrammingError"}

\* C20: if the driver's execute or fetch raises during a manager operation, the
\* call aborts: the driver's error reaches the caller unchanged, commit is not
\* called, the statement is executed once only, and the cursor acquired for the
\* call is still released.
C20_DriverErrorAborts ==
    Done(ManagerOperations \ {"add_defaults"}) =>
        LET Aborted(step) ==
                /\ Commits = {}
                /\ Cardinality(Executes) = 1
                /\ conn[1].op = "cursor"
                /\ conn[Len(conn) - 1].op = step
                /\ conn[Len(conn)].op = "close"
                /\ Cardinality({i \in 1..Len(conn) :
                                    conn[i].op \in {"cursor", "close"}}) = 2
        IN /\ (call.fails = "execute" /\ Executes # {}) =>
                 /\ ret.st = "raise" /\ ret.exc \in DriverErrors
                 /\ ret.arg = "execute"
                 /\ Aborted("execute")
           /\ (call.fails = "fetch" /\ Fetches # {}) =>
                 /\ ret = Raise("DatabaseError", FetchOrCount)
                 /\ Aborted(FetchOrCount)
           /\ (ret.st = "raise" /\ ret.exc \in DriverErrors
                  /\ ret.arg \in {"execute", "fetchone", "fetchall"}) =>
                 Aborted(ret.arg)

\* find_many_by_pk whose fetchall raised, and a create whose execute raised.
C20_Witness ==
    /\ Done({"find_many_by_pk"}) /\ call.fails = "fetch"
    /\ ret = Raise("DatabaseError", "fetchall")
    /\ OpsOf(conn) = <<"cursor", "execute", "fetchall", "close">>
C20_WitnessExecute ==
    /\ Done({"create"}) /\ call.fails = "execute" /\ call.use_defaults
    /\ ret = Raise("DatabaseError", "execute")
    /\ OpsOf(conn) = <<"cursor", "execute", "close">>

---------------------------------------------------------------------------
(* Memoization.  A function of queries.py carries @functools.cache or it does *)
(* not.  The wrapper looks its key up, calls the function on a miss and       *)
(* stores what it returned; an undecorated function is simply called.  Two    *)
(* threads call; a thread may be preempted between any two of these steps.    *)
(* Every call of a function body builds a new object: objects are told apart  *)
(* by id.  The caches of the formatters that a composer calls in turn behave  *)
(* the same way and are left out.                                             *)

MaxThreadCalls == 2
Threads == {1, 2}

\* The functions of queries.py that are decorated with @functools.cache.
Decorated ==
    {"rows_with_phs", "rows_with_phs_and_defaults", "columns_with_phs",
     "csplaceholders", "csidentifiers", "ob", "insert"}

MemoCalls ==
    {[fn |-> "rows_with_phs", rows |-> 1, phs |-> 2],
     [fn |-> "rows_with_phs", rows |-> 2, phs |-> 1],
     [fn |-> "insert", table |-> "customer", columns |-> <<"customerid", "name">>,
      defaults |-> None, returning |-> FALSE, named_phs |-> TRUE],
     [fn |-> "insert_many", table |-> "customer", columns |-> <<"customerid", "name">>,
      qty |-> 2, defaults_per_entity |-> None, returning |-> FALSE],
     [fn |-> "select_by_pk", table |-> "customer", pk_column |-> "customerid",
      columns |-> <<"customerid", "name">>, named_phs |-> FALSE]}

\* The body of the function, applied to the arguments of the call c.
Apply(c) ==
    CASE c.fn = "rows_with_phs" -> rows_with_phs(c.rows, c.phs)
      [] c.fn = "insert" ->
            insert(c.table, c.columns, c.defaults, c.returning, c.named_phs)
      [] c.fn = "insert_many" ->
            insert_many(c.table, c.columns, c.qty, c.defaults_per_entity, c.returning)
      [] c.fn = "select_by_pk" ->
            select_by_pk(c.table, c.pk_column, c.columns, c.named_phs)

\* A key that forgets the arguments.
make_key_ignores_args(c) == [fn |-> c.fn]

\* functools' key of a call: the function's own cache, the full argument tuple.
make_key(c) == c

IdleThread == [pc |-> "idle", n |-> 0]

MemoInit ==
    /\ call = Idle
    /\ ret = Pending
    /\ caller_entity = EmptyDict
    /\ em = NoManager
    /\ ents = <<>>
    /\ conn = <<>>
    /\ memo = [cache |-> <<>>, next_id |-> 1, returned |-> {},
               th |-> [t \in Threads |-> IdleThread]]

MemoStep(t, thread, cache, next_id, returned) ==
    /\ memo' = [cache |-> cache, next_id |-> next_id, returned |-> returned,
                th |-> [memo.th EXCEPT ![t] = thread]]
    /\ UNCHANGED <<call, ret, caller_entity, em, ents, conn>>

\* Thread t calls a function.  The wrapper of a decorated function looks the key
\* up and returns the cached object on a hit; otherwise the body is entered.
MemoCall(t) ==
    /\ memo.th[t].pc \in {"idle", "returned"}
    /\ memo.th[t].n < MaxThreadCalls
    /\ \E c \in MemoCalls :
          LET began == [pc |-> "computing", n |-> memo.th[t].n + 1, c |-> c,
                        prior |-> c \in memo.returned, computed |-> FALSE]
              hit == c.fn \in Decorated /\ make_key(c) \in DOMAIN memo.cache
          IN IF hit
             THEN MemoStep(t, [began EXCEPT !.pc = "returned"]
                                  @@ [res |-> memo.cache[make_key(c)]],
                           memo.cache, memo.next_id, memo.returned \cup {c})
             ELSE MemoStep(t, began, memo.cache, memo.next_id, memo.returned)

\* The body runs to its return statement and builds its result.
MemoCompute(t) ==
    /\ memo.th[t].pc = "computing"
    /\ LET c == memo.th[t].c
           res == [id |-> memo.next_id, val |-> Apply(c)]
           thread == [memo.th[t] EXCEPT !.computed = TRUE] @@ [res |-> res]
       IN IF c.fn \in Decorated
          THEN MemoStep(t, [thread EXCEPT !.pc = "computed"], memo.cache,
                        memo.next_id + 1, memo.returned)
          ELSE MemoStep(t, [thread EXCEPT !.pc = "returned"], memo.cache,
                        memo.next_id + 1, memo.returned \cup {c})

\* The wrapper stores the result under the key and returns it.
MemoStore(t) ==
    /\ memo.th[t].pc = "computed"
    /\ LET c == memo.th[t].c
           k == make_key(c)
       IN MemoStep(t, [memo.th[t] EXCEPT !.pc = "returned"],
                   [x \in DOMAIN memo.cache \cup {k} |->
                       IF x = k THEN memo.th[t].res ELSE memo.cache[x]],
                   memo.next_id, memo.returned \cup {c})

MemoNext ==
    \/ \E t \in Threads : MemoCall(t)
    \/ \E t \in Threads : MemoCompute(t)
    \/ \E t \in Threads : MemoStore(t)

SpecMemo == MemoInit /\ [][MemoNext]_vars

\* The calls that have returned and have not been followed by another call.
ReturnedThreads == {t \in Threads : memo.th[t].pc = "returned"}

\* C21: every composer and formatter is memoized on its full argument tuple: a
\* call made after a call with equal arguments has returned gets the identical
\* cached object, the body is not run again, and no cache entry is ever evicted.
C21_EveryComposerMemoized ==
    \A t \in ReturnedThreads :
        memo.th[t].prior =>
            /\ ~memo.th[t].computed
            /\ make_key(memo.th[t].c) \in DOMAIN memo.cache
            /\ memo.th[t].res = memo.cache[make_key(memo.th[t].c)]

\* C29: when two threads call the same memoized function with equal arguments
\* concurrently, under every interleaving both get equal results, which are the
\* result of a sequential call and never a partial or different value; afterwards
\* the cache holds the entry of that key with that value; and a call with other
\* arguments does not change the entry.
C29_ConcurrentEqualCalls ==
    /\ [](\A t \in ReturnedThreads :
             LET c == memo.th[t].c
             IN c.fn \in Decorated =>
                   /\ memo.th[t].res.val = Apply(c)
                   /\ \A u \in ReturnedThreads :
                         memo.th[u].c = c => memo.th[u].res.val = memo.th[t].res.val
                   /\ make_key(c) \in DOMAIN memo.cache
                   /\ memo.cache[make_key(c)].val = Apply(c))
    /\ [][\A k \in DOMAIN memo.cache :
             /\ k \in DOMAIN memo'.cache
             /\ memo'.cache[k] # memo.cache[k] =>
                   /\ memo'.cache[k].val = memo.cache[k].val
                   /\ \E t \in Threads :
                         /\ memo.th[t].pc = "computed"
                         /\ memo'.th[t].pc = "returned"
                         /\ make_key(memo.th[t].c) = k]_vars

\* Both threads missed, both ran insert, and both have returned: two objects of
\* equal value, one of them in the cache.
C29_Witness ==
    /\ ReturnedThreads = Threads
    /\ memo.th[1].c = memo.th[2].c
    /\ memo.th[1].c.fn = "insert"
    /\ memo.th[1].computed /\ memo.th[2].computed
    /\ memo.th[1].res.id # memo.th[2].res.id
    /\ memo.th[1].res.val = memo.th[2].res.val
    /\ DOMAIN memo.cache = {make_key(memo.th[1].c)}

\* C22: a method wrapped by default_row_factory receives, when the caller omits
\* row_factory or passes None, the manager's row_factory, or dict_row when the
\* manager's is None; when the caller passes a row_factory, exactly that one; and
\* every other argument unchanged.
C22_DefaultRowFactory ==
    Done({"default_row_factory"}) =>
        LET passed == IF "row_factory" \in DOMAIN call.kwargs
                      THEN call.kwargs.row_factory ELSE None
            got == ret.val
        IN /\ ret.st = "ok"
           /\ got.self = call.self
           /\ got.args = call.args
           /\ DOMAIN got.kwargs = DOMAIN call.kwargs \cup {"row_factory"}
           /\ \A k \in DOMAIN call.kwargs \ {"row_factory"} :
                 got.kwargs[k] = call.kwargs[k]
           /\ passed = None =>
                 got.kwargs.row_factory = IF call.self.row_factory = None
                                          THEN Some("dict_row")
                                          ELSE call.self.row_factory
           /\ passed # None => got.kwargs.row_factory = passed

\* The caller omits row_factory and the manager is configured with tuple_row.
C22_Witness ==
    /\ Done({"default_row_factory"})
    /\ call.self = [row_factory |-> Some("tuple_row")]
    /\ call.args = <<1>>
    /\ DOMAIN call.kwargs = {"returning"}
    /\ ret.val.kwargs.row_factory = Some("tuple_row")
C22_WitnessFallback ==
    /\ Done({"default_row_factory"})
    /\ call.self = [row_factory |-> None]
    /\ call.kwargs = [row_factory |-> None]
    /\ ret.val.kwargs = [row_factory |-> Some("dict_row")]

C24_UpdateSetsNonKeyColumns ==
    Done({"update_by_pk", "update_many_by_pk"}) =>
        LET NonKey(c) == c # call.pk_column
            nonkey == SelectSeq(call.columns, NonKey)
            m == Len(nonkey)
            w == Pos(ret.val, SQL(" WHERE "))
            sl == SubSeq(ret.val, Pos(ret.val, SQL(" SET ")) + 1, w - 1)
        IN /\ ret.val[w + 1] = Identifier(call.pk_column)
           /\ ret.val[w + 2] = IF call.fn = "update_by_pk"
                               THEN SQL(" = ") ELSE SQL(" = ANY(")
           /\ ret.val[w + 3] = PlaceholderFor(call.pk_column, call.named_phs)
           /\ Len(sl) = IF m = 0 THEN 0 ELSE 4 * m - 1
           /\ \A j \in 1..m :
                 /\ sl[4 * j - 3] = Identifier(nonkey[j])
                 /\ sl[4 * j - 2] = SQL("=")
                 /\ sl[4 * j - 1] = PlaceholderFor(nonkey[j], call.named_phs)
                 /\ j < m => sl[4 * j] = SQL(",")

\* C26: no delete composer called with returning=True returns a statement whose
\* RETURNING clause has an empty column list: an empty column tuple is rejected
\* with the same usage error as a missing (None) column list.
C26_EmptyReturningRejected ==
    (Done(DeleteComposers) /\ call.returning) =>
        /\ ret.st = "ok" => ClauseBody(ret.val, "RETURNING") # <<>>
        /\ (call.columns = None \/ call.columns = Some(<<>>)) =>
              ret = Raise("ValueError",
                          "If returning is True, columns must be specified.")

\* C27: insert_many renders one row group per element of defaults_per_entity
\* whenever defaults_per_entity is supplied (not None), for every length including
\* zero, whatever qty is; when defaults_per_entity is None it renders exactly qty
\* row groups of len(columns) placeholders each.
C27_InsertManyRowGroups ==
    Done({"insert_many"}) =>
        LET C == call.columns
            rows == InsertManyRows(ret.val)
        IN IF call.defaults_per_entity = None
           THEN /\ RowsWellFormed(rows, call.qty, Len(C))
                /\ \A r \in 1..call.qty, j \in 1..Len(C) :
                      RowSlot(rows, Len(C), r, j) = Placeholder("")
           ELSE LET D == call.defaults_per_entity.v
                IN /\ RowsWellFormed(rows, Len(D), Len(C))
                   /\ \A r \in 1..Len(D), j \in 1..Len(C) :
                         RowSlot(rows, Len(C), r, j) =
                             IF C[j] \in Range(D[r])
                             THEN SQL("DEFAULT") ELSE Placeholder("")

---------------------------------------------------------------------------
(* find_many_by_pk against a table.  The table has unique keys, so a row is   *)
(* named by its key.  PostgreSQL answers the SELECT that the manager sends:   *)
(* the rows whose key is in the array, in the ORDER BY order if there is one  *)
(* and in an order of its own choosing otherwise, then OFFSET and LIMIT.      *)

MaxKeys == 3
Keys == 1..MaxKeys

Perms(S) ==
    {p \in [1..Cardinality(S) -> S] : \A i, j \in DOMAIN p : p[i] = p[j] => i = j}
Ascending(S) == CHOOSE p \in Perms(S) : \A i, j \in DOMAIN p : i < j => p[i] < p[j]
Descending(S) == CHOOSE p \in Perms(S) : \A i, j \in DOMAIN p : i < j => p[i] > p[j]

\* The integer a Literal renders.
LiteralValue(tok) == CHOOSE n \in (-1)..(MaxPage + 1) : ToString(n) = tok.v
\* The integer after the keyword kw of stmt, or otherwise when stmt has no kw.
ClauseInt(stmt, kw, otherwise) ==
    IF HasClause(stmt, kw)
    THEN LiteralValue(stmt[PosAny(stmt, ClauseTexts(kw)) + 1]) ELSE otherwise

\* What fetchall returns after execute(query, params) on a table with the given
\* keys; heap is the order the server reads the matching rows in.
PgSelect(query, params, keys, heap) ==
    LET matching == keys \cap Range(params.v[1].list)
        m == Cardinality(matching)
        at == PosAny(query, ClauseTexts("ORDER BY"))
        ordered == IF at = 0 THEN heap
                   ELSE IF at + 3 <= Len(query) /\ query[at + 3] = SQL("DESC")
                        THEN Descending(matching) ELSE Ascending(matching)
        o == ClauseInt(query, "OFFSET", 0)
        L == ClauseInt(query, "LIMIT", m)
        last == IF o + L < m THEN o + L ELSE m
    IN SubSeq(ordered, o + 1, last)

\* The manager of the test of find_many_by_pk.
FindManager == EntityManager("customer", "customerid", <<"name">>, None, None)

FindCalls ==
    [fn : {"find_many_by_pk"}, keys : SUBSET Keys, pk_list : SeqsUpTo(Keys, MaxQty),
     order_by : {None, Some(ob("customerid", Some("DESC"), None))},
     limit : Optional(0..MaxPage), offset : Optional(0..MaxPage)]

FindInit ==
    /\ call \in FindCalls
    /\ ret = Pending
    /\ caller_entity = EmptyDict
    /\ em = FindManager
    /\ ents = <<>>
    /\ conn = <<>>
    /\ memo = NoMemo

\* find_many_by_pk runs against the table: the rows it returns.
FindManyRows ==
    /\ ret = Pending
    /\ LET run == find_many_by_pk(em, call.pk_list, call.order_by, call.limit,
                                  call.offset, default_row_factory(em, None), "none")
           ex == run.conn[2]
       IN \E heap \in Perms(call.keys \cap Range(call.pk_list)) :
             /\ ret' = Ok(PgSelect(ex.query, ex.params, call.keys, heap))
             /\ conn' = run.conn
    /\ UNCHANGED <<call, caller_entity, em, ents, memo>>

FindNext == FindManyRows

SpecFind == FindInit /\ [][FindNext]_vars

\* C25: find_many_by_pk over a table with unique keys, for every key list, limit
\* and offset: the statement has exactly one positional placeholder and is
\* executed with one bind value carrying the whole key list; the rows returned
\* are rows whose key is in the list, and their number is max(0, min(L, m - o)),
\* m being the number of matching rows, o the offset (0 when omitted) and L the
\* limit (unbounded when omitted); with order_by the rows come in that order.
C25_FindManyRows ==
    Done({"find_many_by_pk"}) =>
        LET matching == call.keys \cap Range(call.pk_list)
            m == Cardinality(matching)
            o == IF call.offset = None THEN 0 ELSE call.offset.v
            L == IF call.limit = None THEN m ELSE call.limit.v
            rest == IF m - o < L THEN m - o ELSE L
            rows == ret.val
        IN /\ Cardinality(Executes) = 1
           /\ Cardinality({j \in 1..Len(Executed.query) :
                               Executed.query[j].k = "Ph"}) = 1
           /\ \A j \in 1..Len(Executed.query) :
                 Executed.query[j].k = "Ph" => Executed.query[j].v = ""
           /\ Executed.params = Positional(<<PyList(call.pk_list)>>)
           /\ Range(rows) \subseteq matching
           /\ Len(rows) = IF rest < 0 THEN 0 ELSE rest
           /\ call.order_by # None =>
                 \A i, j \in 1..Len(rows) : i < j => rows[i] > rows[j]

---------------------------------------------------------------------------
\* after is before with additions only: every key of before keeps its value, the
\* keys added are exactly the columns of m that before lacks and that have a
\* provider, each with its provider's value, and the providers called (the keys
\* of missing_values) are of columns that before lacks.
OnlyAdds(m, before, after) ==
    LET added == DOMAIN after \ DOMAIN before
    IN /\ \A k \in DOMAIN before : k \in DOMAIN after /\ after[k] = before[k]
       /\ added = {c \in Range(m.columns) :
                      c \notin DOMAIN before /\ c \in DOMAIN m.defaults}
       /\ \A k \in added : after[k] = CallProvider(m.defaults[k])
       /\ DOMAIN missing_values(before, m.columns, m.defaults) \cap DOMAIN before = {}

\* What one step does to the caller's entities.
EntitiesStep ==
    IF call = Idle /\ call' # Idle /\ call'.fn \in {"add_defaults", "create", "create_many"}
    THEN CASE call'.fn = "add_defaults" \/ (call'.fn = "create" /\ call'.use_defaults) ->
                 /\ Len(ents') = Len(ents)
                 /\ \A j \in 1..Len(ents) : j # call'.i => ents'[j] = ents[j]
                 /\ OnlyAdds(em, ents[call'.i], ents'[call'.i])
           [] call'.fn = "create_many" /\ call'.use_defaults ->
                 /\ Len(ents') = Len(ents)
                 /\ \A j \in 1..Len(ents) : OnlyAdds(em, ents[j], ents'[j])
           [] OTHER -> ents' = ents
    ELSE ents' = ents

\* C28: add_defaults is the only manager step that mutates a caller's entity, and
\* it only adds: it never changes or removes the value of a key already present,
\* never invokes the provider of a column that is present, adds exactly the
\* manager columns that are missing and have a provider, and no key outside the
\* manager's columns; create and create_many with use_defaults=False, the finds,
\* the deletes and the construction leave the entities unchanged.
C28_OnlyAddDefaultsMutates == [][EntitiesStep]_vars

\* add_defaults on {customerid: 1} with providers for customerid and email: the
\* key keeps its value and email is added.
C28_Witness ==
    /\ Done({"add_defaults"})
    /\ call.entity = [customerid |-> 1]
    /\ em.columns = <<"customerid", "name", "email">>
    /\ em.defaults = [customerid |-> 8, email |-> 9]
    /\ ents[call.i] = [customerid |-> 1, email |-> 9]

---------------------------------------------------------------------------
(* e4psycopg.qloader: named SQL statements loaded from a string.  The string   *)
(* is the sequence of its lines; a line is a name definition "-- name: x", a  *)
(* comment "-- ...", a line of SQL or a blank line, and may be indented.  The *)
(* stored statement, each line followed by a newline, is the sequence of its  *)
(* lines.                                                                     *)

MaxLines == 3

NameLine(name) == [kind |-> "name", text |-> name, indent |-> FALSE]
CommentLine(text) == [kind |-> "comment", text |-> text, indent |-> FALSE]
SqlLine(text, indent) == [kind |-> "sql", text |-> text, indent |-> indent]
BlankLine == [kind |-> "blank", text |-> "", indent |-> FALSE]

\* str.strip() of one line.
StripLine(line) == [line EXCEPT !.indent = FALSE]

\* str.strip() of a section: the blank lines that close it go.
RECURSIVE StripSection(_)
StripSection(lines) ==
    IF lines # <<>> /\ lines[Len(lines)].kind = "blank"
    THEN StripSection(SubSeq(lines, 1, Len(lines) - 1)) ELSE lines

\* _DOC_COMMENT_PATTERN.match(sql_line): the line starts with "--".
DocCommentMatch(sql_line) == sql_line.kind = "comment"

_extract_sql(lines) ==
    LET Sql(sql_line) == ~DocCommentMatch(sql_line)
    IN SelectSeq(lines, Sql)

\* sql_code.replace("-", "_") on the names in use.
ReplaceDashes(name) == IF name = "find-one" THEN "find_one" ELSE name
\* _VALID_QUERY_NAME_PATTERN.match(query_name): word characters only.
ValidQueryName(query_name) == query_name \in {"q", "find_one"}

_extract_query_name(sql_code) ==
    LET query_name == ReplaceDashes(sql_code)
    IN IF ~ValidQueryName(query_name)
       THEN Raise("ValueError", query_name) ELSE Ok(query_name)

\* _QUERY_NAME_DEFINITION_PATTERN.split(sql_code)[1:], each piece stripped and
\* split into stripped lines: one piece per name definition, from the name to the
\* line before the next name definition.
NameDefinitions(sql_code) == {i \in 1..Len(sql_code) : sql_code[i].kind = "name"}
SectionEnd(sql_code, i) ==
    IF \E j \in NameDefinitions(sql_code) : j > i
    THEN (CHOOSE j \in NameDefinitions(sql_code) :
             j > i /\ \A k \in NameDefinitions(sql_code) : k > i => j <= k) - 1
    ELSE Len(sql_code)
SectionLines(sql_code, i) ==
    LET stripped == StripSection(SubSeq(sql_code, i, SectionEnd(sql_code, i)))
    IN [k \in 1..Len(stripped) |-> StripLine(stripped[k])]

\* The loop of from_str from line i on, sql_queries being the dict so far.
RECURSIVE FromStrLoop(_, _, _)
FromStrLoop(sql_code, i, sql_queries) ==
    IF i > Len(sql_code) THEN Ok(sql_queries)
    ELSE IF sql_code[i].kind # "name" THEN FromStrLoop(sql_code, i + 1, sql_queries)
    ELSE LET lines == SectionLines(sql_code, i)
             query_name == _extract_query_name(lines[1].text)
             sql_query == _extract_sql(SubSeq(lines, 2, Len(lines)))
         IN IF query_name.st = "raise" THEN query_name
            ELSE FromStrLoop(sql_code, i + 1,
                             (query_name.val :> sql_query) @@ sql_queries)

from_str(sql_code) == FromStrLoop(sql_code, 1, EmptyDict)

SourceLines ==
    {NameLine("q"), NameLine("find-one"), NameLine("no name"), CommentLine("note"),
     SqlLine("SELECT 1", FALSE), SqlLine("FROM t;", TRUE), BlankLine}

LoaderInit ==
    /\ call \in [fn : {"from_str"}, sql_code : SeqsUpTo(SourceLines, MaxLines)]
    /\ ret = Pending
    /\ caller_entity = EmptyDict
    /\ em = NoManager
    /\ ents = <<>>
    /\ conn = <<>>
    /\ memo = NoMemo

FromStr == call.fn = "from_str" /\ Returns(from_str(call.sql_code))

LoaderNext == FromStr

SpecLoader == LoaderInit /\ [][LoaderNext]_vars

\* lines without the comment lines it starts with.
RECURSIVE AfterLeadingComments(_)
AfterLeadingComments(lines) ==
    IF lines # <<>> /\ lines[1].kind = "comment"
    THEN AfterLeadingComments(Tail(lines)) ELSE lines

\* C30: from_str stores, for each "-- name: <identifier>" section, the lines
\* that follow the name line in their original order (each stripped, the blank
\* lines closing the section aside), excluding only the leading comment lines
\* directly under the name; every later line is kept, including a "--" comment
\* line after the first SQL line.  Of two sections of one name the later counts.
C30_LoaderKeepsLaterComments ==
    (Done({"from_str"}) /\ ret.st = "ok") =>
        LET code == call.sql_code
            Key(i) == ReplaceDashes(code[i].text)
        IN /\ DOMAIN ret.val = {Key(i) : i \in NameDefinitions(code)}
           /\ \A i \in NameDefinitions(code) :
                 (\A j \in NameDefinitions(code) : j > i => Key(j) # Key(i)) =>
                     ret.val[Key(i)] =
                         AfterLeadingComments(Tail(SectionLines(code, i)))


=============================================================================
